---- MODULE Spec2Model ----
(***************************************************************************)
(* The email pipeline of app/services/agents/gmail_agent.py:               *)
(* process_emails_task -> GmailAgent.process_unread -> the compiled graph  *)
(* classifier -> summarizer -> (reply_drafter | END), one run per unread   *)
(* message, with the provider (gemini_model.invoke) as the environment     *)
(* (Spec; SpecLive adds that the task runs on; SpecCancel adds a caller    *)
(* who asks a run to stop; SpecRuns has several runs in progress at once), *)
(* the slot proposals of app/services/agents/calendar_agent.py,            *)
(* CalendarAgent.propose_time_slots behind its route (SpecSlots), the      *)
(* issue generation of app/services/agents/jira_agent.py behind its routes *)
(* (SpecJira), and the Slack events endpoint of app/api/routes/slack.py    *)
(* with SlackAgent.handle_event (SpecSlack).                               *)
(*                                                                         *)
(* Python values: a str that the code strips or lower-cases is a sequence  *)
(* of one-character strings; None is the empty tuple and an Optional       *)
(* record r is <<r>>.                                                      *)
(***************************************************************************)
EXTENDS Integers, Sequences, FiniteSets, TLC

\* ------------------------------------------------------------ bounds
\* Most unread messages the mailbox lists in one batch.
MaxMessages == 2

\* ------------------------------------------------------------ str
None == <<>>
Some(v) == <<v>>

\* The characters str.strip() removes (the ones the model's texts use).
Whitespace == {" ", "\n"}

\* str.lower() on one character, for the letters the model's texts use.
LowerChar(c) ==
    CASE c = "A" -> "a" [] c = "D" -> "d" [] c = "E" -> "e" [] c = "F" -> "f"
      [] c = "I" -> "i" [] c = "L" -> "l" [] c = "M" -> "m" [] c = "N" -> "n"
      [] c = "O" -> "o" [] c = "P" -> "p" [] c = "R" -> "r" [] c = "T" -> "t"
      [] c = "U" -> "u" [] c = "V" -> "v" [] c = "W" -> "w" [] c = "Y" -> "y"
      [] OTHER -> c

lower(s) == [i \in 1..Len(s) |-> LowerChar(s[i])]

RECURSIVE lstrip(_)
lstrip(s) == IF s # <<>> /\ Head(s) \in Whitespace THEN lstrip(Tail(s)) ELSE s

RECURSIVE rstrip(_)
rstrip(s) ==
    IF s # <<>> /\ s[Len(s)] \in Whitespace
    THEN rstrip(SubSeq(s, 1, Len(s) - 1))
    ELSE s

strip(s) == rstrip(lstrip(s))

\* ------------------------------------------------------------ classification values
AUTO_REPLY == <<"a", "u", "t", "o", "-", "r", "e", "p", "l", "y">>
DRAFT_FOR_REVIEW ==
    <<"d", "r", "a", "f", "t", "-", "f", "o", "r", "-", "r", "e", "v", "i", "e", "w">>
MANUAL == <<"m", "a", "n", "u", "a", "l">>

valid_classifications == {AUTO_REPLY, DRAFT_FOR_REVIEW, MANUAL}

\* Lines 130-135 without the lower() of line 130.
ClassificationCaseSensitive(content) ==
    LET classification == strip(content)
    IN  IF classification \notin valid_classifications THEN MANUAL ELSE classification

\* Lines 130-135: strip, lower-case, default to manual.
Classification(content) ==
    LET classification == lower(strip(content))
    IN  IF classification \notin valid_classifications THEN MANUAL ELSE classification


\* The conditional edge with draft-for-review left out of its test.
RouteAutoReplyOnly(state) ==
    IF state.classification \in {AUTO_REPLY} THEN "reply_drafter" ELSE "END"

\* The conditional edge replaced by a plain edge summarizer -> reply_drafter.
RouteAlways(state) == "reply_drafter"

\* The conditional edge after the summarizer, lines 82-89: the classification
\* itself when it is auto-reply or draft-for-review, END otherwise; both
\* values map to the reply_drafter node.
Route(state) ==
    IF state.classification \in {AUTO_REPLY, DRAFT_FOR_REVIEW}
    THEN "reply_drafter"
    ELSE "END"

\* ------------------------------------------------------------ Python values
\* What evaluating a provider text can yield: str, int, None, list, dict.
\* t is the type, s the text of a str or an int, l the elements of a list or
\* the values of a dict, k the keys of a dict (k[i] maps to l[i]).
PyStr(s) == [t |-> "str", s |-> s, l |-> <<>>, k |-> <<>>]
PyInt(n) == [t |-> "int", s |-> n, l |-> <<>>, k |-> <<>>]
PyNone == [t |-> "NoneType", s |-> "", l |-> <<>>, k |-> <<>>]
PyList(l) == [t |-> "list", s |-> "", l |-> l, k |-> <<>>]
PyDict(k, l) == [t |-> "dict", s |-> "", l |-> l, k |-> k]

\* Exceptions: cls is the class the except clauses test ("Exception" or
\* "BaseException" for SystemExit), msg is str(e).
Exc(name, cls, msg) == [name |-> name, cls |-> cls, msg |-> msg]

\* pydantic: a str field takes only a str, a List[str] field only a list of str.
IsStr(x) == x.t = "str"
IsListOfStr(x) == x.t = "list" /\ \A i \in 1..Len(x.l): x.l[i].t = "str"

\* dict.get(key, default)
get(d, key, default) ==
    IF \E i \in 1..Len(d.k): d.k[i] = key
    THEN d.l[CHOOSE i \in 1..Len(d.k): d.k[i] = key]
    ELSE default

\* models/email.py EmailSummary as built on lines 190-195: the record, or the
\* validation error pydantic raises.
EmailSummary(main_purpose, key_details, questions, deadlines) ==
    IF /\ IsStr(main_purpose)
       /\ IsListOfStr(key_details)
       /\ IsListOfStr(questions)
       /\ IsListOfStr(deadlines)
    THEN [raised |-> None,
          value |-> Some([main_purpose |-> main_purpose.s,
                          key_details |-> key_details.l,
                          questions |-> questions.l,
                          deadlines |-> deadlines.l])]
    ELSE [raised |-> Some(Exc("ValidationError", "Exception",
                              "validation error for EmailSummary")),
          value |-> None]

\* Lines 198-203: the fallback record.
FallbackSummary ==
    [main_purpose |-> "Failed to extract summary",
     key_details |-> <<>>,
     questions |-> <<>>,
     deadlines |-> <<>>]

\* ------------------------------------------------------------ provider text as an expression
\* Line 189 hands the summarizer's provider text to eval(). A text is modelled
\* by the Python expression it denotes: a literal display (value), an
\* undefined name such as the null of a JSON document (func), a call (func),
\* or no expression at all.
Constant(v) == [ast |-> "Constant", func |-> "", value |-> v]
Name(id) == [ast |-> "Name", func |-> id, value |-> PyNone]
Call(func) == [ast |-> "Call", func |-> func, value |-> PyNone]
Unparsable == [ast |-> "SyntaxError", func |-> "", value |-> PyNone]

\* The outcome of an evaluation: the value or the exception, and whether the
\* evaluation ran a command outside the process.
Returns(v) == [value |-> Some(v), raised |-> None, system |-> FALSE]
Throws(e) == [value |-> None, raised |-> Some(e), system |-> FALSE]

\* The callables the model's texts use: exit() raises SystemExit, os.system()
\* runs a shell command and returns its status.
EvalCall(func) ==
    IF func = "exit"
    THEN Throws(Exc("SystemExit", "BaseException", ""))
    ELSE [Returns(PyInt("0")) EXCEPT !.system = TRUE]

eval(e) ==
    CASE e.ast = "SyntaxError" -> Throws(Exc("SyntaxError", "Exception", "invalid syntax"))
      [] e.ast = "Name" -> Throws(Exc("NameError", "Exception", "name is not defined"))
      [] e.ast = "Call" -> EvalCall(e.func)
      [] OTHER -> Returns(e.value)

\* Lines 188-203: the try block and its except clause. summary is the record
\* the stage stores, caught the exception the except clause handled, raised the
\* one it does not handle ("except Exception" lets a BaseException through).
ParseSummary(content) ==
    LET r == eval(content)
        summary_dict == r.value[1]
        built ==
            IF summary_dict.t # "dict"
            THEN [raised |-> Some(Exc("AttributeError", "Exception",
                                      "object has no attribute 'get'")),
                  value |-> None]
            ELSE EmailSummary(get(summary_dict, "main_purpose", PyStr("")),
                              get(summary_dict, "key_details", PyList(<<>>)),
                              get(summary_dict, "questions", PyList(<<>>)),
                              get(summary_dict, "deadlines", PyList(<<>>)))
        e == IF r.raised # None THEN r.raised ELSE built.raised
    IN  IF e = None
        THEN [summary |-> built.value, caught |-> None, raised |-> None,
              system |-> r.system]
        ELSE IF e[1].cls = "Exception"
        THEN [summary |-> Some(FallbackSummary), caught |-> e, raised |-> None,
              system |-> r.system]
        ELSE [summary |-> None, caught |-> None, raised |-> e,
              system |-> r.system]

\* ReplyDraft built without needs_review, which then takes the default True of
\* models/email.py line 32.
ReplyDraftDefaultReview(email, content, classification) ==
    [to |-> email.sender,
     subject |-> <<"Re: ", email.subject>>,
     body |-> strip(content),
     needs_review |-> TRUE]

\* models/email.py ReplyDraft as built on lines 281-286.
ReplyDraft(email, content, classification) ==
    [to |-> email.sender,
     subject |-> <<"Re: ", email.subject>>,
     body |-> strip(content),
     needs_review |-> (classification = DRAFT_FOR_REVIEW)]

\* The two prompts the wrong way round.
SystemContentSwapped(classification) ==
    IF classification = AUTO_REPLY THEN "draft-for-review" ELSE "auto-reply"

\* Lines 245-255: the system prompt the drafter chooses.
SystemContent(classification) ==
    IF classification = AUTO_REPLY THEN "auto-reply" ELSE "draft-for-review"

\* ------------------------------------------------------------ what the provider may answer
\* The whitespace the provider puts before and after its answer.
Pads == {<<>>, <<" ">>, <<"\n", " ">>}

upper(s) == [i \in 1..Len(s) |->
                IF \E c \in {"A", "D", "E", "F", "I", "L", "M", "N", "O", "P",
                             "R", "T", "U", "V", "W", "Y"}: LowerChar(c) = s[i]
                THEN CHOOSE c \in {"A", "D", "E", "F", "I", "L", "M", "N", "O", "P",
                                   "R", "T", "U", "V", "W", "Y"}: LowerChar(c) = s[i]
                ELSE s[i]]
capitalize(s) == IF s = <<>> THEN s ELSE SubSeq(upper(s), 1, 1) \o Tail(s)

\* Answers of the classifier prompt before padding: the three categories in
\* lower, upper and capitalised form, and texts that are no category.
ClassifierAnswers ==
    valid_classifications
    \cup {upper(AUTO_REPLY), capitalize(DRAFT_FOR_REVIEW),
          <<>>,
          <<"s", "p", "a", "m">>,
          <<"a", "u", "t", "o", " ", "r", "e", "p", "l", "y">>,
          <<"m", "a", "n", "u", "a", "l", ".">>,
          <<"a", "u", "t", "o", "-", "r", "e", "p", "l", "y", "\n", "o", "k">>}

ClassifierTexts == {p \o a \o q : p \in Pads, a \in ClassifierAnswers, q \in Pads}

\* Answers of the drafter prompt.
DraftTexts == {<<"O", "k">>, <<" ", "O", "k", "\n">>}

FullDict ==
    PyDict(<<"main_purpose", "key_details", "questions", "deadlines">>,
           <<PyStr("p"), PyList(<<PyStr("k")>>), PyList(<<>>), PyList(<<PyStr("d")>>)>>)

\* Answers of the summarizer prompt, as the expressions they denote:
\*   the requested object; {} ; an object with a number for main_purpose;
\*   a list; prose or a fenced block; a JSON document holding null;
\*   exit(); __import__("os").system(...).
SummaryTexts ==
    {Constant(FullDict),
     Constant(PyDict(<<>>, <<>>)),
     Constant(PyDict(<<"main_purpose">>, <<PyInt("5")>>)),
     Constant(PyList(<<PyStr("p")>>)),
     Unparsable,
     Name("null"),
     Call("exit"),
     Call("os.system")}

\* ------------------------------------------------------------ calendar values
\* CalendarAgent.propose_time_slots (calendar_agent.py).  A date is a day
\* number, day 0 a Monday; a datetime is minutes since day 0 00:00, naive
\* (no UTC offset) or aware (with one).
MaxDay == 1

SLOT_STEP == 30
MAX_SLOTS == 10

Weekdays ==
    <<"monday", "tuesday", "wednesday", "thursday", "friday", "saturday", "sunday">>

\* current_date.strftime('%A').lower()
weekday(date) == Weekdays[(date % 7) + 1]

\* Lines 119-126: the working hours used when the caller gives none.
DefaultWorkingHours ==
    [d \in {"monday", "tuesday", "wednesday", "thursday", "friday"} |-> <<9, 17>>]

\* A date string of the request: "YYYY-MM-DD", or text that is no date.
DateStr(day) == [valid |-> TRUE, day |-> day]
BadDate == [valid |-> FALSE, day |-> 0]

Naive(t) == [t |-> t, aware |-> FALSE]
Aware(t) == [t |-> t, aware |-> TRUE]

\* datetime.datetime.combine(date, datetime.time(hour=hour, minute=0))
combine(date, hour) == Naive(date * 1440 + hour * 60)

\* datetime + datetime.timedelta(minutes=minutes)
plus(dt, minutes) == [dt EXCEPT !.t = dt.t + minutes]

\* datetime.isoformat(): the fields of "YYYY-MM-DDTHH:MM:SS".
isoformat(dt) ==
    [date |-> dt.t \div 1440, hour |-> (dt.t % 1440) \div 60, minute |-> dt.t % 60]

\* Comparing a naive with an aware datetime raises TypeError.
Comparable(a, b) == a.aware = b.aware

\* TimeSlot (models/calendar.py).
TimeSlot(start, end, timezone) == [start |-> start, end |-> end, timezone |-> timezone]

\* Line 185: slot_start < busy_end and slot_end > busy_start, the second
\* comparison made only when the first is true.
Overlaps(slot_start, slot_end, busy) ==
    IF ~Comparable(slot_start, busy.end) THEN "TypeError"
    ELSE IF ~(slot_start.t < busy.end.t) THEN "no"
    ELSE IF ~Comparable(slot_end, busy.start) THEN "TypeError"
    ELSE IF slot_end.t > busy.start.t THEN "yes" ELSE "no"

\* The loop over the busy periods looking at the first of them only.
is_available_first_only(slot_start, slot_end, busy_periods, i) ==
    IF i > Len(busy_periods) THEN "yes"
    ELSE LET o == Overlaps(slot_start, slot_end, busy_periods[i])
         IN  IF o = "TypeError" THEN "TypeError"
             ELSE IF o = "yes" THEN "no" ELSE "yes"

\* Lines 176-187: the loop over the busy periods, left at the first overlap.
RECURSIVE is_available(_, _, _, _)
is_available(slot_start, slot_end, busy_periods, i) ==
    IF i > Len(busy_periods) THEN "yes"
    ELSE LET o == Overlaps(slot_start, slot_end, busy_periods[i])
         IN  IF o = "TypeError" THEN "TypeError"
             ELSE IF o = "yes" THEN "no"
             ELSE is_available(slot_start, slot_end, busy_periods, i + 1)

\* The test of line 172 left out: a slot may end after the day does.
never_past_day_end(slot_end, day_end) == FALSE

\* Line 172: slot_end > day_end
past_day_end(slot_end, day_end) == slot_end.t > day_end.t

\* The whole list returned, without the [:10] of line 216.
TopAll(slots) == slots

\* available_slots[:10]
Top(slots) ==
    SubSeq(slots, 1, IF Len(slots) < MAX_SLOTS THEN Len(slots) ELSE MAX_SLOTS)

\* What the slot loops have so far: the list and the exception raised, if any.
Slots(list, raised) == [list |-> list, raised |-> raised]

\* Lines 169-199: the slots of one day, from slot_start on.
RECURSIVE DaySlots(_, _, _, _, _, _)
DaySlots(slot_start, day_end, duration_minutes, timezone, busy_periods, available_slots) ==
    IF ~(slot_start.t < day_end.t) THEN Slots(available_slots, None)
    ELSE LET slot_end == plus(slot_start, duration_minutes)
         IN  IF past_day_end(slot_end, day_end) THEN Slots(available_slots, None)
             ELSE LET a == is_available(slot_start, slot_end, busy_periods, 1)
                  IN  IF a = "TypeError"
                      THEN Slots(available_slots,
                                 Some(Exc("TypeError", "Exception",
                                          "can't compare offset-naive and offset-aware datetimes")))
                      ELSE DaySlots(plus(slot_start, SLOT_STEP), day_end, duration_minutes,
                                    timezone, busy_periods,
                                    IF a = "yes"
                                    THEN Append(available_slots,
                                                TimeSlot(isoformat(slot_start),
                                                         isoformat(slot_end), timezone))
                                    ELSE available_slots)

\* Lines 148-201: the loop over the days of the range.
RECURSIVE DateSlots(_, _, _, _, _, _, _)
DateSlots(current_date, end_date_obj, duration_minutes, timezone, hours, busy_periods, available_slots) ==
    IF ~(current_date <= end_date_obj) THEN Slots(available_slots, None)
    ELSE IF weekday(current_date) \notin DOMAIN hours
    THEN DateSlots(current_date + 1, end_date_obj, duration_minutes, timezone,
                   hours, busy_periods, available_slots)
    ELSE LET start_hour == hours[weekday(current_date)][1]
             end_hour == hours[weekday(current_date)][2]
         IN  IF start_hour \notin 0..23 \/ end_hour \notin 0..23
             THEN Slots(available_slots,
                        Some(Exc("ValueError", "Exception", "hour must be in 0..23")))
             ELSE LET day == DaySlots(combine(current_date, start_hour),
                                      combine(current_date, end_hour),
                                      duration_minutes, timezone, busy_periods,
                                      available_slots)
                  IN  IF day.raised # None THEN day
                      ELSE DateSlots(current_date + 1, end_date_obj, duration_minutes,
                                     timezone, hours, busy_periods, day.list)

\* The requests tried.
Durations == {-30, 0, 30, 45, 60}
Dates == {DateStr(d) : d \in 0..MaxDay} \cup {BadDate}
Timezones == {"UTC"}
WorkingHours ==
    {DefaultWorkingHours,
     [d \in {"monday"} |-> <<9, 11>>],
     [d \in {"tuesday"} |-> <<22, 24>>],
     [d \in {} |-> <<0, 0>>]}

\* The busy periods the calendar answers with: start and end as the naive
\* or the aware datetimes fromisoformat makes of them.
Busy(start, end) == [start |-> start, end |-> end]
BusyPeriods ==
    {<<>>,
     <<Busy(Aware(540), Aware(600))>>,
     <<Busy(Naive(540), Naive(600))>>,
     <<Busy(Naive(570), Naive(600)), Busy(Naive(630), Naive(690))>>,
     <<Busy(Naive(1440 + 600), Naive(1440 + 615)), Busy(Naive(0), Naive(2880))>>}

\* ------------------------------------------------------------ state
VARIABLES
    unread,             \* ids of the mailbox messages labelled UNREAD
    messages,           \* process_unread: the listed messages
    idx,                \* process_unread: position of the for loop in messages
    pc,                 \* where the task is: the node about to run, or a loop/exit point
    state,              \* the state dict of the run in progress
    response,           \* the provider response the running node last received
    processed_results,  \* process_unread: the results appended so far
    audit,              \* the entries handed to audit_logger.log, in order
    calls,              \* the gemini_model.invoke calls made, in order
    error,              \* the exception propagating out of the workflow, if any
    effects,            \* ids of the runs in which a provider text ran a command
    cancel_requested,   \* the caller has asked for the run in progress to stop
    runs,               \* runs in progress at once: the place and the audit entries of each
    dicts,              \* runs in progress at once: the state dicts
    request,            \* propose_time_slots: the arguments of the call
    busy_periods,       \* propose_time_slots: the calendar's answer, once queried
    available_slots,    \* propose_time_slots: the slots found, once the loops end
    time_slots,         \* the list propose_time_slots returned, once it returned
    jira_request,       \* issue generation: the arguments and the provider's text
    issue,              \* issue generation: the JiraIssue returned, once it returned
    slack_request,      \* the Slack events endpoint: the request received
    status_code,        \* the Slack events endpoint: the status answered, once answered
    background,         \* the Slack events endpoint: the payload of the task it scheduled
    posts               \* the chat_postMessage calls made, in order

\* The variables of propose_time_slots, which the mail task leaves alone.
calendar == <<request, busy_periods, available_slots, time_slots>>

\* The variables of issue generation and of the Slack events endpoint.
jira == <<jira_request, issue>>
slack == <<slack_request, status_code, background, posts>>

\* No issue is being generated, no Slack request is being answered.
NoIssueRequest == [kind |-> "none", project_key |-> "", content |-> <<>>]
NoSlackRequest == [signature |-> "none", body |-> "none", event |-> <<>>]
OthersIdle ==
    /\ jira_request = NoIssueRequest
    /\ issue = None
    /\ slack_request = NoSlackRequest
    /\ status_code = None
    /\ background = None
    /\ posts = <<>>

\* The variables of process_unread, which propose_time_slots leaves alone.
mail ==
    <<unread, messages, idx, state, response, processed_results, calls, effects,
      cancel_requested, runs, dicts>>

vars == <<unread, messages, idx, pc, state, response, processed_results,
          audit, calls, error, effects, cancel_requested, runs, dicts, request,
          busy_periods, available_slots, time_slots, jira_request, issue,
          slack_request, status_code, background, posts>>

user_id == "user"

\* Lines 364-405, the fields the pipeline reads.
_parse_gmail_message(msg_id) ==
    [message_id |-> msg_id, subject |-> <<"subject", msg_id>>,
     sender |-> <<"sender", msg_id>>]

NoEmail == [message_id |-> 0, subject |-> <<"subject", 0>>, sender |-> <<"sender", 0>>]

\* A dict that already holds a summary when the run starts.
InitialStateWithSummary(email) ==
    [email |-> email, classification |-> None, summary |-> Some(FallbackSummary),
     reply_draft |-> None, user_id |-> user_id]

\* Lines 343-349: the dict a run starts from.
InitialState(email) ==
    [email |-> email, classification |-> None, summary |-> None,
     reply_draft |-> None, user_id |-> user_id]

\* audit_logger.log: the entry it builds (the timestamp left out).
AuditEntry(action, status, resource_id, details) ==
    [action |-> action, status |-> status, resource_id |-> resource_id,
     details |-> details]

NoDetails == [none |-> TRUE]

\* response is a local of the node that is running: unassigned when a node
\* starts and when the run is over.
NoResponse == [by |-> "none", content |-> <<>>]

\* A call of propose_time_slots: the keyword arguments of lines 98-103.
Request(duration_minutes, start_date, end_date, timezone, working_hours) ==
    [duration_minutes |-> duration_minutes, start_date |-> start_date,
     end_date |-> end_date, timezone |-> timezone, working_hours |-> working_hours]

NoRequest == Request(0, BadDate, BadDate, "UTC", None)

Init ==
    /\ unread \in {1..n : n \in 0..MaxMessages}
    /\ messages = <<>>
    /\ idx = 1
    /\ pc = "process_unread"
    /\ state = InitialState(NoEmail)
    /\ response = NoResponse
    /\ processed_results = <<>>
    /\ audit = <<>>
    /\ calls = <<>>
    /\ error = None
    /\ effects = {}
    /\ cancel_requested = FALSE
    /\ runs = <<>>
    /\ dicts = <<>>
    /\ request = NoRequest
    /\ busy_periods = None
    /\ available_slots = None
    /\ time_slots = None
    /\ OthersIdle

\* One gemini_model.invoke call as calls records it: the run (its message),
\* the node, the system prompt (the drafter's depends on the classification),
\* and whether the call returned.
Invocation(node, ok) ==
    [msg |-> state.email.message_id,
     node |-> node,
     system |-> IF node = "reply_drafter" THEN SystemContent(state.classification) ELSE node,
     ok |-> ok]

\* gemini_model.invoke raising: nothing in the nodes, the graph or
\* process_unread catches it, so it leaves the workflow.
ProviderError == Exc("ProviderError", "Exception", "provider call failed")

\* gemini_model.invoke wrapped in a retry: the failed call is made again.
InvokeRetries(node) ==
    /\ calls' = Append(calls, Invocation(node, FALSE))
    /\ error' = Some(ProviderError)
    /\ response' = NoResponse
    /\ pc' = node
    /\ UNCHANGED <<unread, messages, idx, state, processed_results, audit, effects>>

InvokeRaises(node) ==
    /\ calls' = Append(calls, Invocation(node, FALSE))
    /\ error' = Some(ProviderError)
    /\ response' = NoResponse
    /\ pc' = "raised"
    /\ UNCHANGED <<unread, messages, idx, state, processed_results, audit, effects>>

\* audit_logger.log raising while it records action: log catches nothing
\* (audit_logger.py lines 51-92) and neither do the nodes, the graph or
\* process_unread, so the exception leaves the workflow.
AuditError(action) == Exc("AuditError", "Exception", action)

LogRaises(action) ==
    /\ error' = Some(AuditError(action))
    /\ response' = NoResponse
    /\ pc' = "raised"

\* process_unread, lines 312-321: list the unread messages.
list_unread ==
    /\ pc = "process_unread"
    /\ UNCHANGED <<calendar, cancel_requested, runs, dicts, jira, slack>>
    /\ messages' = [i \in 1..Cardinality(unread) |-> i]
    /\ idx' = 1
    /\ pc' = "for"
    /\ UNCHANGED <<unread, state, response, processed_results, audit, calls,
                   error, effects>>

\* process_unread, lines 323-349: fetch and parse the next message, mark it
\* read, and start its run at the entry point.
fetch_message ==
    /\ pc = "for"
    /\ UNCHANGED <<calendar, cancel_requested, runs, dicts, jira, slack>>
    /\ idx <= Len(messages)
    /\ unread' = unread \ {messages[idx]}
    /\ state' = InitialState(_parse_gmail_message(messages[idx]))
    /\ pc' = "classifier"
    /\ UNCHANGED <<messages, idx, response, processed_results, audit, calls,
                   error, effects>>

\* _classify_email, lines 97-149.
_classify_email ==
    /\ pc = "classifier"
    /\ UNCHANGED <<calendar, cancel_requested, runs, dicts, jira, slack>>
    /\ \/ InvokeRaises("classifier")
       \/ \E content \in ClassifierTexts:
            LET classification == Classification(content)
            IN  /\ state' = [state EXCEPT !.classification = classification]
                /\ calls' = Append(calls, Invocation("classifier", TRUE))
                /\ \/ /\ response' = [by |-> "classifier", content |-> content]
                      /\ audit' = Append(audit,
                              AuditEntry("email_classified", "success",
                                         Some(state.email.message_id),
                                         [classification |-> classification]))
                      /\ pc' = "summarizer"
                      /\ UNCHANGED error
                   \/ /\ LogRaises("email_classified")
                      /\ UNCHANGED audit
                /\ UNCHANGED <<unread, messages, idx, processed_results, effects>>

\* _summarize_email, lines 151-224, and the conditional edge that follows it.
_summarize_email ==
    /\ pc = "summarizer"
    /\ UNCHANGED <<calendar, cancel_requested, runs, dicts, jira, slack>>
    /\ \/ InvokeRaises("summarizer")
       \/ \E content \in SummaryTexts:
            LET r == ParseSummary(content)
                id == state.email.message_id
                failure == AuditEntry("email_summarized", "failure", Some(id),
                                      [error |-> r.caught[1].msg])
                success == AuditEntry("email_summarized", "success", Some(id), NoDetails)
            IN  /\ calls' = Append(calls, Invocation("summarizer", TRUE))
                /\ effects' = IF r.system THEN effects \cup {id} ELSE effects
                /\ IF r.raised # None
                   THEN /\ response' = [by |-> "summarizer", content |-> content]
                        /\ error' = r.raised
                        /\ pc' = "raised"
                        /\ UNCHANGED <<state, audit>>
                   ELSE \/ /\ response' = [by |-> "summarizer", content |-> content]
                           /\ state' = [state EXCEPT !.summary = r.summary]
                           /\ audit' = IF r.caught # None
                                       THEN audit \o <<failure, success>>
                                       ELSE Append(audit, success)
                           /\ pc' = Route(state')
                           /\ UNCHANGED error
                        \/ /\ r.caught # None
                           /\ LogRaises("email_summarized")
                           /\ UNCHANGED <<state, audit>>
                        \/ /\ state' = [state EXCEPT !.summary = r.summary]
                           /\ audit' = IF r.caught # None
                                       THEN Append(audit, failure) ELSE audit
                           /\ LogRaises("email_summarized")
                /\ UNCHANGED <<unread, messages, idx, processed_results>>

\* _draft_reply, lines 226-300; the node has no outgoing edge, so the run ends.
_draft_reply ==
    /\ pc = "reply_drafter"
    /\ UNCHANGED <<calendar, cancel_requested, runs, dicts, jira, slack>>
    /\ \/ InvokeRaises("reply_drafter")
       \/ \E content \in DraftTexts:
            LET reply_draft == ReplyDraft(state.email, content, state.classification)
            IN  /\ state' = [state EXCEPT !.reply_draft = Some(reply_draft)]
                /\ calls' = Append(calls, Invocation("reply_drafter", TRUE))
                /\ \/ /\ response' = [by |-> "reply_drafter", content |-> content]
                      /\ audit' = Append(audit,
                              AuditEntry("email_reply_drafted", "success",
                                         Some(state.email.message_id),
                                         [needs_review |-> reply_draft.needs_review]))
                      /\ pc' = "END"
                      /\ UNCHANGED error
                   \/ /\ LogRaises("email_reply_drafted")
                      /\ UNCHANGED audit
                /\ UNCHANGED <<unread, messages, idx, processed_results, effects>>

\* process_unread, lines 351-360: the run returned its final state.
append_result ==
    /\ pc = "END"
    /\ cancel_requested' = FALSE
    /\ UNCHANGED <<calendar, runs, dicts, jira, slack>>
    /\ processed_results' = Append(processed_results, state)
    /\ state' = InitialState(NoEmail)
    /\ \/ /\ audit' = Append(audit,
                  AuditEntry("email_processed", "success", Some(messages[idx]),
                             [classification |-> state.classification]))
          /\ idx' = idx + 1
          /\ response' = NoResponse
          /\ pc' = "for"
          /\ UNCHANGED error
       \/ /\ LogRaises("email_processed")
          /\ UNCHANGED <<audit, idx>>
    /\ UNCHANGED <<unread, messages, calls, effects>>

\* process_unread line 362 and process_emails_task lines 74-82: the loop is
\* over, the task logs the count.
task_completed ==
    /\ pc = "for"
    /\ UNCHANGED <<calendar, cancel_requested, runs, dicts, jira, slack>>
    /\ idx > Len(messages)
    /\ audit' = Append(audit,
            AuditEntry("email_processing_completed", "success", None,
                       [processed_count |-> Len(processed_results)]))
    /\ pc' = "done"
    /\ UNCHANGED <<unread, messages, idx, state, response, processed_results,
                   calls, error, effects>>

\* process_emails_task lines 84-91: "except Exception" logs the failure; a
\* BaseException leaves the task.
task_failed ==
    /\ pc = "raised"
    /\ UNCHANGED <<calendar, cancel_requested, runs, dicts, jira, slack>>
    /\ IF error[1].cls = "Exception"
       THEN /\ audit' = Append(audit,
                    AuditEntry("email_processing_completed", "failure", None,
                               [error |-> error[1].msg]))
            /\ pc' = "done"
       ELSE /\ pc' = "crashed"
            /\ UNCHANGED audit
    /\ UNCHANGED <<unread, messages, idx, state, response, processed_results,
                   calls, error, effects>>

Next ==
    \/ list_unread
    \/ fetch_message
    \/ _classify_email
    \/ _summarize_email
    \/ _draft_reply
    \/ append_result
    \/ task_completed
    \/ task_failed

Spec == Init /\ [][Next]_vars

\* The task runs on: the loop and the nodes are straight-line Python, so a
\* step that can be taken is taken once the provider answered or failed.
SpecLive == Init /\ [][Next]_vars /\ WF_vars(Next)

\* The caller asks for the run to stop while it is between two nodes.  The
\* call of lines 343-349 passes no signal and no node looks for one: nothing
\* in the workflow reads cancel_requested.
cancel ==
    /\ pc \in {"classifier", "summarizer", "reply_drafter"}
    /\ ~cancel_requested
    /\ cancel_requested' = TRUE
    /\ UNCHANGED <<unread, messages, idx, pc, state, response, processed_results,
                   audit, calls, error, effects, calendar, runs, dicts, jira, slack>>

\* The task with a caller that may ask a run to stop.
NextCancel ==
    \/ cancel
    \/ Next

SpecCancel == Init /\ [][NextCancel]_vars

\* ------------------------------------------------------------ several runs
\* Several calls of email_workflow.invoke in progress at once, their nodes
\* interleaved in any order.  process_unread itself makes the calls one after
\* the other; any schedule of the nodes is admitted here, which includes that
\* one.  runs holds where each run is and the audit entries its nodes logged;
\* dicts holds the state dicts.
MaxRuns == 2

RunIds == 1..MaxRuns

\* One dict for all the runs.
shared_dict(run) == 1

\* Lines 343-349: every call of invoke is given a dict built for it.
dict_of(run) == run

\* The variables the interleaved runs leave alone.
sequential ==
    <<unread, messages, idx, pc, state, response, processed_results, audit,
      calls, error, cancel_requested, calendar, jira, slack>>

InitRuns ==
    /\ runs = [r \in RunIds |-> [pc |-> "invoke", audit |-> <<>>]]
    /\ dicts = [d \in RunIds |-> InitialState(NoEmail)]
    /\ unread = {}
    /\ messages = <<>>
    /\ idx = 1
    /\ pc = "runs"
    /\ state = InitialState(NoEmail)
    /\ response = NoResponse
    /\ processed_results = <<>>
    /\ audit = <<>>
    /\ calls = <<>>
    /\ error = None
    /\ effects = {}
    /\ cancel_requested = FALSE
    /\ request = NoRequest
    /\ busy_periods = None
    /\ available_slots = None
    /\ time_slots = None
    /\ OthersIdle

\* The summarizer texts tried with several runs: one that parses, one that
\* does not, one whose evaluation leaves the task.
RunSummaryTexts == {Constant(FullDict), Unparsable, Call("exit")}

\* Run r moves to node (or out of the graph) having logged entries.
Goes(r, node, entries) ==
    runs' = [runs EXCEPT ![r] = [pc |-> node, audit |-> runs[r].audit \o entries]]

\* Lines 343-349: the call of invoke for message r.
run_invoke ==
    \E r \in RunIds:
        /\ runs[r].pc = "invoke"
        /\ dicts' = [dicts EXCEPT ![dict_of(r)] = InitialState(_parse_gmail_message(r))]
        /\ Goes(r, "classifier", <<>>)
        /\ UNCHANGED <<sequential, effects>>

\* _classify_email, lines 97-149, for run r.
run_classify ==
    \E r \in RunIds:
        /\ runs[r].pc = "classifier"
        /\ \/ Goes(r, "raised", <<>>) /\ UNCHANGED dicts
           \/ \E content \in ClassifierTexts:
                LET classification == Classification(content)
                    email == dicts[dict_of(r)].email
                IN  /\ dicts' = [dicts EXCEPT ![dict_of(r)].classification = classification]
                    /\ \/ Goes(r, "summarizer",
                               <<AuditEntry("email_classified", "success",
                                            Some(email.message_id),
                                            [classification |-> classification])>>)
                       \/ Goes(r, "raised", <<>>)
        /\ UNCHANGED <<sequential, effects>>

\* _summarize_email, lines 151-224, and the conditional edge, for run r.
run_summarize ==
    \E r \in RunIds:
        /\ runs[r].pc = "summarizer"
        /\ \/ Goes(r, "raised", <<>>) /\ UNCHANGED <<dicts, effects>>
           \/ \E content \in RunSummaryTexts:
                LET p == ParseSummary(content)
                    id == dicts[dict_of(r)].email.message_id
                    failure == AuditEntry("email_summarized", "failure", Some(id),
                                          [error |-> p.caught[1].msg])
                    success == AuditEntry("email_summarized", "success", Some(id), NoDetails)
                IN  /\ effects' = IF p.system THEN effects \cup {id} ELSE effects
                    /\ IF p.raised # None
                       THEN Goes(r, "raised", <<>>) /\ UNCHANGED dicts
                       ELSE \/ /\ dicts' = [dicts EXCEPT ![dict_of(r)].summary = p.summary]
                               /\ Goes(r, Route(dicts'[dict_of(r)]),
                                       IF p.caught # None THEN <<failure, success>>
                                       ELSE <<success>>)
                            \/ /\ p.caught # None
                               /\ Goes(r, "raised", <<>>)
                               /\ UNCHANGED dicts
                            \/ /\ dicts' = [dicts EXCEPT ![dict_of(r)].summary = p.summary]
                               /\ Goes(r, "raised",
                                       IF p.caught # None THEN <<failure>> ELSE <<>>)
        /\ UNCHANGED sequential

\* _draft_reply, lines 226-300, for run r.
run_draft ==
    \E r \in RunIds:
        /\ runs[r].pc = "reply_drafter"
        /\ \/ Goes(r, "raised", <<>>) /\ UNCHANGED dicts
           \/ \E content \in DraftTexts:
                LET mine == dicts[dict_of(r)]
                    reply_draft == ReplyDraft(mine.email, content, mine.classification)
                IN  /\ dicts' = [dicts EXCEPT ![dict_of(r)].reply_draft = Some(reply_draft)]
                    /\ \/ Goes(r, "END",
                               <<AuditEntry("email_reply_drafted", "success",
                                            Some(mine.email.message_id),
                                            [needs_review |-> reply_draft.needs_review])>>)
                       \/ Goes(r, "raised", <<>>)
        /\ UNCHANGED <<sequential, effects>>

NextRuns ==
    \/ run_invoke
    \/ run_classify
    \/ run_summarize
    \/ run_draft

SpecRuns == InitRuns /\ [][NextRuns]_vars

\* ------------------------------------------------------------ slot proposals
\* A caller of CalendarAgent.propose_time_slots: the route of
\* routes/calendar.py (lines 83-132), which passes no working hours, or any
\* other caller, which may.
InitSlots ==
    /\ request \in {Request(d, s, e, tz, w) :
                        d \in Durations, s \in Dates, e \in Dates, tz \in Timezones,
                        w \in {None} \cup {Some(h) : h \in WorkingHours}}
    /\ pc = "propose_time_slots"
    /\ busy_periods = None
    /\ available_slots = None
    /\ time_slots = None
    /\ OthersIdle
    /\ audit = <<>>
    /\ error = None
    /\ unread = {}
    /\ messages = <<>>
    /\ idx = 1
    /\ state = InitialState(NoEmail)
    /\ response = NoResponse
    /\ processed_results = <<>>
    /\ calls = <<>>
    /\ effects = {}
    /\ cancel_requested = FALSE
    /\ runs = <<>>
    /\ dicts = <<>>

\* Lines 119-126.
working_hours ==
    IF request.working_hours = None THEN DefaultWorkingHours ELSE request.working_hours[1]

\* Lines 128-130: datetime.fromisoformat raises ValueError on text that is
\* no date.
parse_dates ==
    /\ pc = "propose_time_slots"
    /\ IF request.start_date.valid /\ request.end_date.valid
       THEN /\ pc' = "freebusy"
            /\ UNCHANGED error
       ELSE /\ error' = Some(Exc("ValueError", "Exception", "Invalid isoformat string"))
            /\ pc' = "slots_raised"
    /\ UNCHANGED <<mail, jira, slack, calendar, audit>>

\* Lines 132-141: the free/busy query, which answers or raises.
query_freebusy ==
    /\ pc = "freebusy"
    /\ \/ /\ \E busy \in BusyPeriods: busy_periods' = Some(busy)
          /\ pc' = "slots"
          /\ UNCHANGED error
       \/ /\ busy_periods' = Some(<<>>)
          /\ error' = Some(Exc("HttpError", "Exception", "freebusy query failed"))
          /\ pc' = "slots_raised"
    /\ UNCHANGED <<mail, jira, slack, audit, request, available_slots, time_slots>>

\* Lines 143-216: the slot loops, the audit entry and the return.
generate_slots ==
    /\ pc = "slots"
    /\ LET r == DateSlots(request.start_date.day, request.end_date.day,
                          request.duration_minutes, request.timezone,
                          working_hours, busy_periods[1], <<>>)
       IN  IF r.raised # None
           THEN /\ error' = r.raised
                /\ pc' = "slots_raised"
                /\ UNCHANGED <<available_slots, time_slots, audit>>
           ELSE /\ available_slots' = Some(r.list)
                /\ audit' = Append(audit,
                        AuditEntry("time_slots_proposed", "success", None,
                                   [available_slots_count |-> Len(r.list)]))
                /\ time_slots' = Some(Top(r.list))
                /\ pc' = "slots_returned"
                /\ UNCHANGED error
    /\ UNCHANGED <<mail, jira, slack, request, busy_periods>>

\* routes/calendar.py lines 105-119: the route answers with the slots.
slots_response ==
    /\ pc = "slots_returned"
    /\ audit' = Append(audit,
            AuditEntry("time_slots_proposed", "success", None,
                       [slots_count |-> Len(time_slots[1])]))
    /\ pc' = "HTTP_200_OK"
    /\ UNCHANGED <<mail, jira, slack, calendar, error>>

\* routes/calendar.py lines 121-132: the route answers any exception with 500.
slots_failure ==
    /\ pc = "slots_raised"
    /\ audit' = Append(audit,
            AuditEntry("time_slots_proposed", "failure", None,
                       [error |-> error[1].msg]))
    /\ pc' = "HTTP_500_INTERNAL_SERVER_ERROR"
    /\ UNCHANGED <<mail, jira, slack, calendar, error>>

NextSlots ==
    \/ parse_dates
    \/ query_freebusy
    \/ generate_slots
    \/ slots_response
    \/ slots_failure

SpecSlots == InitSlots /\ [][NextSlots]_vars

\* ------------------------------------------------------------ issue generation
\* JiraAgent.generate_issue_from_email and generate_issue_from_calendar
\* (jira_agent.py), called by the routes of routes/jira.py.  The two differ in
\* the arguments they take and in the defaults of dict.get.
ProjectKeys == {"PROJ", "OPS"}

\* The summary and the description the generators fall back to: the email
\* subject and body, the event title and the event description with its time.
DefaultSummary(kind) == IF kind = "email" THEN "email_subject" ELSE "event_title"
DefaultDescription(kind) ==
    IF kind = "email" THEN "email_body"
    ELSE "event_description\n\nEvent Time: event_start to event_end"

\* models/jira.py JiraIssue as the generators build it: the record, or the
\* validation error pydantic raises on a value that does not fit its field.
JiraIssue(project_key, summary, description, issue_type, priority, labels, due_date) ==
    IF /\ IsStr(summary)
       /\ IsStr(description)
       /\ IsStr(issue_type)
       /\ priority.t \in {"str", "NoneType"}
       /\ IsListOfStr(labels)
       /\ due_date.t \in {"str", "NoneType"}
    THEN [raised |-> None,
          value |-> Some([project_key |-> project_key,
                          summary |-> summary.s,
                          description |-> description.s,
                          issue_type |-> issue_type.s,
                          priority |-> IF priority.t = "str" THEN Some(priority.s) ELSE None,
                          labels |-> labels.l,
                          due_date |-> IF due_date.t = "str" THEN Some(due_date.s) ELSE None])]
    ELSE [raised |-> Some(Exc("ValidationError", "Exception",
                              "validation error for JiraIssue")),
          value |-> None]

\* Lines 202-209 and 290-297: the issue of the except clause.
FallbackIssue(req) ==
    [project_key |-> req.project_key,
     summary |-> DefaultSummary(req.kind),
     description |-> DefaultDescription(req.kind),
     issue_type |-> "Task",
     priority |-> None,
     labels |-> <<>>,
     due_date |-> None]

\* Lines 179-191 and 265-278, with the except clause of lines 202 and 290:
\* issue is the record the function holds, caught the exception the clause
\* handled, raised the one it lets through.
ParseIssue(req) ==
    LET r == eval(req.content)
        issue_dict == r.value[1]
        built ==
            IF issue_dict.t # "dict"
            THEN [raised |-> Some(Exc("AttributeError", "Exception",
                                      "object has no attribute 'get'")),
                  value |-> None]
            ELSE JiraIssue(req.project_key,
                           get(issue_dict, "summary", PyStr(DefaultSummary(req.kind))),
                           get(issue_dict, "description", PyStr(DefaultDescription(req.kind))),
                           get(issue_dict, "issue_type", PyStr("Task")),
                           IF req.kind = "email"
                           THEN get(issue_dict, "priority", PyNone)
                           ELSE get(issue_dict, "priority", PyStr("Medium")),
                           get(issue_dict, "labels", PyList(<<>>)),
                           IF req.kind = "email" THEN PyNone
                           ELSE get(issue_dict, "due_date", PyNone))
        e == IF r.raised # None THEN r.raised ELSE built.raised
    IN  IF e = None
        THEN [issue |-> built.value, caught |-> None, raised |-> None,
              system |-> r.system]
        ELSE IF e[1].cls = "Exception"
        THEN [issue |-> Some(FallbackIssue(req)), caught |-> e, raised |-> None,
              system |-> r.system]
        ELSE [issue |-> None, caught |-> None, raised |-> e,
              system |-> r.system]

FullIssueDict ==
    PyDict(<<"summary", "description", "issue_type", "priority", "labels", "due_date">>,
           <<PyStr("s"), PyStr("d"), PyStr("Bug"), PyStr("High"),
             PyList(<<PyStr("l")>>), PyStr("2024-01-01")>>)

\* Answers of the issue prompts, as the expressions they denote: the requested
\* object; {} ; an object with a number for summary; a list; prose or a fenced
\* block; a JSON document holding null; exit(); __import__("os").system(...).
IssueTexts ==
    {Constant(FullIssueDict),
     Constant(PyDict(<<>>, <<>>)),
     Constant(PyDict(<<"summary">>, <<PyInt("5")>>)),
     Constant(PyList(<<PyStr("p")>>)),
     Unparsable,
     Name("null"),
     Call("exit"),
     Call("os.system")}

InitJira ==
    /\ jira_request \in {[kind |-> k, project_key |-> p, content |-> c] :
                            k \in {"email", "calendar"}, p \in ProjectKeys,
                            c \in IssueTexts}
    /\ issue = None
    /\ pc = "generate_issue"
    /\ slack_request = NoSlackRequest
    /\ status_code = None
    /\ background = None
    /\ posts = <<>>
    /\ unread = {}
    /\ messages = <<>>
    /\ idx = 1
    /\ state = InitialState(NoEmail)
    /\ response = NoResponse
    /\ processed_results = <<>>
    /\ audit = <<>>
    /\ calls = <<>>
    /\ error = None
    /\ effects = {}
    /\ cancel_requested = FALSE
    /\ runs = <<>>
    /\ dicts = <<>>
    /\ request = NoRequest
    /\ busy_periods = None
    /\ available_slots = None
    /\ time_slots = None

\* The action name the generator logs.
generated_from(kind) ==
    IF kind = "email" THEN "jira_issue_generated_from_email"
    ELSE "jira_issue_generated_from_calendar"

\* generate_issue_from_email, lines 141-218, and generate_issue_from_calendar,
\* lines 220-306.  The provider call is outside the try block; the success
\* log is inside it, so its exception is handled by the except clause; the
\* failure log is inside the except clause.
generate_issue ==
    /\ pc = "generate_issue"
    /\ LET action == generated_from(jira_request.kind)
           r == ParseIssue(jira_request)
           success == AuditEntry(action, "success", None, NoDetails)
           failure(msg) == AuditEntry(action, "failure", None, [error |-> msg])
       IN  \/ /\ calls' = Append(calls, Invocation(action, FALSE))
              /\ error' = Some(ProviderError)
              /\ pc' = "issue_raised"
              /\ UNCHANGED <<issue, audit, effects>>
           \/ /\ calls' = Append(calls, Invocation(action, TRUE))
              /\ effects' = IF r.system THEN effects \cup {0} ELSE effects
              /\ IF r.raised # None
                 THEN /\ error' = r.raised
                      /\ pc' = "issue_raised"
                      /\ UNCHANGED <<issue, audit>>
                 ELSE \/ /\ issue' = r.issue
                         /\ audit' = Append(audit,
                                IF r.caught = None THEN success
                                ELSE failure(r.caught[1].msg))
                         /\ pc' = "issue_returned"
                         /\ UNCHANGED error
                      \/ /\ r.caught = None
                         /\ issue' = Some(FallbackIssue(jira_request))
                         /\ audit' = Append(audit, failure(AuditError(action).msg))
                         /\ pc' = "issue_returned"
                         /\ UNCHANGED error
                      \/ /\ error' = Some(AuditError(action))
                         /\ pc' = "issue_raised"
                         /\ UNCHANGED <<issue, audit>>
    /\ UNCHANGED <<unread, messages, idx, state, response, processed_results,
                   cancel_requested, runs, dicts, calendar, jira_request, slack>>

\* routes/jira.py lines 114-137 and 159-185: the route creates the issue the
\* generator returned and answers 201, or 500 when create_issue raises.
issue_created ==
    /\ pc = "issue_returned"
    /\ \/ /\ audit' = Append(audit,
                  AuditEntry("jira_issue_created", "success", None,
                             [summary |-> issue[1].summary]))
          /\ pc' = "HTTP_201_CREATED"
          /\ UNCHANGED error
       \/ /\ error' = Some(Exc("JIRAError", "Exception", "create_issue failed"))
          /\ audit' = Append(audit,
                  AuditEntry("jira_issue_created", "failure", None,
                             [error |-> "create_issue failed"]))
          /\ pc' = "HTTP_500_INTERNAL_SERVER_ERROR"
    /\ UNCHANGED <<mail, calendar, jira, slack>>

\* routes/jira.py lines 138-148 and 185-195: the route answers an Exception
\* of the generator with 500; a BaseException passes its except clause.
issue_failure ==
    /\ pc = "issue_raised"
    /\ IF error[1].cls = "Exception"
       THEN /\ audit' = Append(audit,
                    AuditEntry("jira_issue_created", "failure", None,
                               [error |-> error[1].msg]))
            /\ pc' = "HTTP_500_INTERNAL_SERVER_ERROR"
       ELSE /\ pc' = "crashed"
            /\ UNCHANGED audit
    /\ UNCHANGED <<mail, calendar, jira, slack, error>>

NextJira ==
    \/ generate_issue
    \/ issue_created
    \/ issue_failure

SpecJira == InitJira /\ [][NextJira]_vars

\* ------------------------------------------------------------ Slack events
\* The events endpoint (routes/slack.py slack_events), the task it schedules
\* (process_slack_event) and SlackAgent.handle_event with its two handlers
\* (slack_agent.py).

\* models/slack.py SlackEventType, the fields the handlers read.  The route
\* builds the payload with SlackEventPayload(...), so the event the handlers
\* are given is this pydantic model, not the dict of the request body.
SlackEventType(type, bot_id, text) == [type |-> type, bot_id |-> bot_id, text |-> text]

\* Message texts: two that hold one of the keywords "help", "assist",
\* "how to" once lower-cased, two that hold none.
WithKeyword == {"Help me", "<@U1> how to deploy?"}
Texts == WithKeyword \cup {"hello", "<@U1> hi"}

Events ==
    {SlackEventType(t, b, x) :
        t \in {"message", "app_mention", "reaction_added"},
        b \in {None, Some("B1")},
        x \in Texts}

\* event.get(key) on a dict.
event_get_mapping(event, key) ==
    Returns(IF key = "bot_id" THEN event.bot_id ELSE Some(event.text))

\* event.get(key) on the SlackEventType the handlers are given: a pydantic
\* model has its fields as attributes and no method get.
event_get(event, key) ==
    Throws(Exc("AttributeError", "Exception",
               "'SlackEventType' object has no attribute 'get'"))

\* What a handler does with an event: raised is the exception that leaves
\* it, answers whether it goes on to call the provider and post the answer.
Raises(e) == [raised |-> e, answers |-> FALSE]
Ignores == [raised |-> None, answers |-> FALSE]
Answers == [raised |-> None, answers |-> TRUE]

\* _handle_message, lines 184-238, up to the provider call: events of bots
\* are ignored, other messages are answered when they hold a keyword.
_handle_message(event) ==
    LET bot_id == event_get(event, "bot_id")
        text == event_get(event, "text")
    IN  IF bot_id.raised # None THEN Raises(bot_id.raised)
        ELSE IF bot_id.value[1] # None THEN Ignores
        ELSE IF text.raised # None THEN Raises(text.raised)
        ELSE IF text.value[1][1] \in WithKeyword THEN Answers
        ELSE Ignores

\* _handle_mention, lines 240-287, up to the provider call: the handler reads
\* the text and answers; it does not look at bot_id.
_handle_mention(event) ==
    LET text == event_get(event, "text")
    IN  IF text.raised # None THEN Raises(text.raised) ELSE Answers

\* verify_signature, lines 44-68: int(timestamp) raises ValueError on a
\* header that is no number; a timestamp older than five minutes and a
\* signature that does not match give False.
verify_signature(signature) ==
    CASE signature = "no_timestamp" ->
            Throws(Exc("ValueError", "Exception", "invalid literal for int()"))
      [] signature = "valid" -> Returns(TRUE)
      [] OTHER -> Returns(FALSE)

\* fastapi.HTTPException, an Exception carrying the status to answer with.
HTTPException(status) == Exc("HTTPException", "Exception", status)

\* The except clauses of slack_events, lines 90-112, and what the client is
\* answered: 400 for a JSONDecodeError, 500 for any other Exception raised in
\* the try block, the rejection of lines 47-50 included.
Answered(raised) ==
    IF raised.name = "JSONDecodeError" THEN 400
    ELSE IF raised.cls = "Exception" THEN 500
    ELSE raised.msg

InitSlack ==
    /\ slack_request \in
           {[signature |-> g, body |-> b, event |-> Some(e)] :
               g \in {"valid", "invalid", "stale", "no_timestamp"},
               b \in {"invalid_json", "url_verification", "event_callback", "other"},
               e \in Events}
    /\ status_code = None
    /\ background = None
    /\ posts = <<>>
    /\ pc = "slack_events"
    /\ jira_request = NoIssueRequest
    /\ issue = None
    /\ unread = {}
    /\ messages = <<>>
    /\ idx = 1
    /\ state = InitialState(NoEmail)
    /\ response = NoResponse
    /\ processed_results = <<>>
    /\ audit = <<>>
    /\ calls = <<>>
    /\ error = None
    /\ effects = {}
    /\ cancel_requested = FALSE
    /\ runs = <<>>
    /\ dicts = <<>>
    /\ request = NoRequest
    /\ busy_periods = None
    /\ available_slots = None
    /\ time_slots = None

\* slack_events, lines 16-112.
slack_events ==
    /\ pc = "slack_events"
    /\ LET verified == verify_signature(slack_request.signature)
           received(status, details) ==
               AuditEntry("slack_event_received", status, None, details)
           raised ==
               IF verified.raised # None THEN verified.raised
               ELSE IF ~verified.value[1] THEN Some(HTTPException(401))
               ELSE IF slack_request.body = "invalid_json"
               THEN Some(Exc("JSONDecodeError", "Exception", "Expecting value"))
               ELSE None
       IN  IF raised # None
           THEN /\ status_code' = Some(Answered(raised[1]))
                /\ error' = raised
                /\ audit' = audit
                       \o (IF raised[1].name = "HTTPException"
                           THEN <<received("failure", [reason |-> "invalid_signature"])>>
                           ELSE <<>>)
                       \o <<received("failure",
                               IF raised[1].name = "JSONDecodeError"
                               THEN [reason |-> "invalid_json"]
                               ELSE [reason |-> raised[1].name])>>
                /\ pc' = "answered"
                /\ UNCHANGED background
           ELSE IF slack_request.body = "event_callback"
           THEN /\ background' = slack_request.event
                /\ audit' = Append(audit,
                        received("success", [reason |-> slack_request.event[1].type]))
                /\ status_code' = Some(200)
                /\ pc' = "background"
                /\ UNCHANGED error
           ELSE /\ status_code' = Some(200)
                /\ pc' = "answered"
                /\ UNCHANGED <<background, audit, error>>
    /\ UNCHANGED <<mail, calendar, jira, slack_request, posts>>

\* process_slack_event, lines 166-181, running handle_event (slack_agent.py
\* lines 102-135) and the handler of the event's type to the end: the
\* provider call and chat_postMessage of the handlers, lines 218-236 and
\* 268-287.  An Exception that leaves handle_event is logged and dropped.
process_slack_event ==
    /\ pc = "background"
    /\ LET event == background[1]
           handled == event.type \in {"message", "app_mention"}
           plan == IF event.type = "message" THEN _handle_message(event)
                   ELSE IF event.type = "app_mention" THEN _handle_mention(event)
                   ELSE Ignores
           done == AuditEntry(IF handled THEN "slack_event_handled"
                              ELSE "slack_event_unhandled",
                              IF handled THEN "success" ELSE "warning",
                              None, [reason |-> event.type])
           failed(e) == AuditEntry("slack_event_processed", "failure", None,
                                   [reason |-> e.name])
           posted == AuditEntry("slack_post_message", "failure", None,
                                [reason |-> "SlackApiError"])
       IN  IF plan.raised # None
           THEN /\ audit' = Append(audit, failed(plan.raised[1]))
                /\ error' = plan.raised
                /\ UNCHANGED <<calls, posts>>
           ELSE IF ~plan.answers
           THEN /\ audit' = Append(audit, done)
                /\ UNCHANGED <<calls, posts, error>>
           ELSE \/ /\ calls' = Append(calls, Invocation(event.type, FALSE))
                   /\ error' = Some(ProviderError)
                   /\ audit' = Append(audit, failed(ProviderError))
                   /\ UNCHANGED posts
                \/ /\ calls' = Append(calls, Invocation(event.type, TRUE))
                   /\ posts' = Append(posts, [type |-> event.type, text |-> event.text])
                   /\ audit' = Append(audit, done)
                   /\ UNCHANGED error
                \/ /\ calls' = Append(calls, Invocation(event.type, TRUE))
                   /\ audit' = audit \o <<posted, done>>
                   /\ UNCHANGED <<posts, error>>
    /\ pc' = "processed"
    /\ UNCHANGED <<unread, messages, idx, state, response, processed_results,
                   effects, cancel_requested, runs, dicts, calendar, jira,
                   slack_request, status_code, background>>

NextSlack ==
    \/ slack_events
    \/ process_slack_event

SpecSlack == InitSlack /\ [][NextSlack]_vars

\* ------------------------------------------------------------ observations
\* The runs seen so far: the completed ones and the one in progress.
Completed == {processed_results[i] : i \in 1..Len(processed_results)}
Runs == Completed \cup (IF state.email.message_id # 0 THEN {state} ELSE {})

\* Positions in calls of the provider calls node made in the run of message m.
CallsOf(m, node) == {i \in 1..Len(calls) : calls[i].msg = m /\ calls[i].node = node}

\* a and b are the same character up to the case of a letter.
CasePairs ==
    {<<"A", "a">>, <<"D", "d">>, <<"E", "e">>, <<"F", "f">>, <<"I", "i">>,
     <<"L", "l">>, <<"M", "m">>, <<"N", "n">>, <<"O", "o">>, <<"P", "p">>,
     <<"R", "r">>, <<"T", "t">>, <<"U", "u">>, <<"V", "v">>, <<"W", "w">>,
     <<"Y", "y">>}
SameLetter(a, b) == a = b \/ <<a, b>> \in CasePairs

\* text is the category v, in any case, between two runs of whitespace.
IsVariant(text, v) ==
    \E i \in 0..Len(text):
        /\ i + Len(v) <= Len(text)
        /\ \A k \in 1..Len(text):
            IF k <= i \/ k > i + Len(v)
            THEN text[k] \in Whitespace
            ELSE SameLetter(text[k], v[k - i])

\* ------------------------------------------------------------ claims

\* C1: for every provider text the classification stage stores one of
\* auto-reply, draft-for-review, manual: the category the text spells once
\* trimmed and lower-cased, and manual for every text that spells none.
C1_ClassifierStoresCategory ==
    response.by = "classifier" =>
        /\ state.classification \in valid_classifications
        /\ \A v \in valid_classifications:
            IsVariant(response.content, v) => state.classification = v
        /\ (\A v \in valid_classifications: ~IsVariant(response.content, v))
            => state.classification = MANUAL

C1_Witness ==
    /\ response.by = "classifier"
    /\ response.content = <<"\n", " ">> \o upper(AUTO_REPLY) \o <<" ">>
    /\ state.classification = AUTO_REPLY

C3_DraftingRunsOnce ==
    /\ \A r \in Completed:
        r.classification \in {AUTO_REPLY, DRAFT_FOR_REVIEW} =>
            /\ r.reply_draft # None
            /\ Cardinality(CallsOf(r.email.message_id, "reply_drafter")) = 1
            /\ \A d \in CallsOf(r.email.message_id, "reply_drafter"):
                \E u \in CallsOf(r.email.message_id, "summarizer"): u < d
    /\ \A v \in {AUTO_REPLY, DRAFT_FOR_REVIEW}:
        (response.by = "classifier" /\ IsVariant(response.content, v))
            => (state.classification = v /\ pc = "summarizer")

C3_Witness ==
    \E r \in Completed:
        /\ r.classification = AUTO_REPLY
        /\ r.reply_draft # None
        /\ ~r.reply_draft[1].needs_review
        /\ Cardinality(CallsOf(r.email.message_id, "reply_drafter")) = 1

\* C4: every draft the drafting stage produced has needs_review equal to
\* (classification = draft-for-review).
C4_NeedsReviewIffDraftForReview ==
    \A r \in Runs:
        r.reply_draft # None =>
            (r.reply_draft[1].needs_review <=> r.classification = DRAFT_FOR_REVIEW)

C4_Witness ==
    \E r1, r2 \in Completed:
        /\ r1.reply_draft # None /\ r1.reply_draft[1].needs_review
        /\ r2.reply_draft # None /\ ~r2.reply_draft[1].needs_review

\* text is the object the summarizer prompt asks for: a literal object whose
\* main_purpose is a string and whose key_details, questions and deadlines,
\* where present, are lists of strings.
WellFormedSummaryText(text) ==
    /\ text.ast = "Constant"
    /\ text.value.t = "dict"
    /\ \E i \in 1..Len(text.value.k):
        text.value.k[i] = "main_purpose" /\ text.value.l[i].t = "str"
    /\ \A i \in 1..Len(text.value.k):
        text.value.k[i] \in {"key_details", "questions", "deadlines"} =>
            /\ text.value.l[i].t = "list"
            /\ \A j \in 1..Len(text.value.l[i].l): text.value.l[i].l[j].t = "str"

\* text is no structured object at all.
NotStructuredText(text) == text.ast # "Constant" \/ text.value.t # "dict"

\* C5: parsing provider text into a summary never raises, and for every text
\* that is malformed, lacks a required field or has a wrongly typed field the
\* stage stores the default record and logs a non-empty failure reason.
C5_ParserDefaultsAndNeverRaises ==
    /\ error # None => error[1].name \in {"ProviderError", "AuditError"}
    /\ (response.by = "summarizer" /\ ~WellFormedSummaryText(response.content)) =>
        /\ state.summary = Some(FallbackSummary)
        /\ \E i \in 1..Len(audit):
            /\ audit[i].action = "email_summarized"
            /\ audit[i].status = "failure"
            /\ audit[i].resource_id = Some(state.email.message_id)
            /\ audit[i].details.error # ""

\* C6: when the summarizer's provider text is not valid structured text and
\* the classification is auto-reply or draft-for-review, the stage stores the
\* default summary without error, the run goes on to the drafting stage, and a
\* run that completes holds a draft.
C6_UnstructuredSummaryStillDrafts ==
    /\ (/\ response.by = "summarizer"
        /\ NotStructuredText(response.content)
        /\ state.classification \in {AUTO_REPLY, DRAFT_FOR_REVIEW}) =>
            /\ error = None
            /\ state.summary = Some(FallbackSummary)
            /\ pc = "reply_drafter"
    /\ \A r \in Completed:
        (r.classification \in {AUTO_REPLY, DRAFT_FOR_REVIEW}
            /\ r.summary = Some(FallbackSummary)) => r.reply_draft # None

\* C7: provider text is only decoded as data: no provider text causes an
\* effect other than the record the stage stores.
C7_ProviderTextIsOnlyData == effects = {}

\* C8: after a provider call of a run failed, that run makes no further
\* provider call (no retry, no later stage), and the failure is on its way out
\* of the workflow.
C8_FailedCallEndsRun ==
    /\ \A i, j \in 1..Len(calls):
        (i < j /\ ~calls[i].ok) => calls[j].msg # calls[i].msg
    /\ (\E i \in 1..Len(calls): ~calls[i].ok) => pc \in {"raised", "done", "crashed"}

C8_Witness ==
    /\ pc = "done"
    /\ Len(messages) = 2
    /\ Len(calls) = 2
    /\ calls[1].ok /\ calls[1].node = "classifier"
    /\ ~calls[2].ok /\ calls[2].node = "summarizer"

\* C9: when a stage fails, what reaches the caller is a WorkflowError carrying
\* the id of the failing stage and the partial state accumulated so far.
C9_ErrorCarriesNodeAndState ==
    error # None =>
        /\ {"node", "state"} \subseteq DOMAIN error[1]
        /\ error[1].node = calls[Len(calls)].node
        /\ error[1].state = state

\* C10: a failed run does not stop the batch: when the task is over, every
\* listed message was fetched and run through the workflow.
C10_BatchContinuesAfterFailure ==
    pc \in {"done", "crashed"} =>
        \A i \in 1..Len(messages): CallsOf(messages[i], "classifier") # {}

\* ------------------------------------------------------------ slot claims
\* Minutes since day 0 00:00 of a timestamp as TimeSlot holds it.
Minutes(iso) == iso.date * 1440 + iso.hour * 60 + iso.minute

\* The slots returned and the busy periods the calendar answered with.
Returned == IF time_slots = None THEN <<>> ELSE time_slots[1]
BusyAnswered == IF busy_periods = None THEN <<>> ELSE busy_periods[1]

\* The slot loops are over: the call returned, or raised from inside them.
LoopsOver ==
    \/ time_slots # None
    \/ error # None /\ error[1].name = "TypeError"

\* C11: no returned slot overlaps a busy interval of the calendar's answer.
C11_NoSlotOverlapsBusy ==
    \A i \in 1..Len(Returned): \A j \in 1..Len(BusyAnswered):
        ~(/\ Minutes(Returned[i].start) < BusyAnswered[j].end.t
          /\ Minutes(Returned[i].end) > BusyAnswered[j].start.t)

\* Slots were returned around the busy periods inside the working hours: one
\* starts where a busy period ends, one ends where a busy period starts.
C11_Witness ==
    /\ Len(Returned) > 1
    /\ \E i \in 1..Len(Returned), j \in 1..Len(BusyAnswered):
           /\ Minutes(Returned[i].start) = BusyAnswered[j].end.t
           /\ BusyAnswered[j].start.t < BusyAnswered[j].end.t
    /\ \E i \in 1..Len(Returned), j \in 1..Len(BusyAnswered):
           Minutes(Returned[i].end) = BusyAnswered[j].start.t

\* The name of the weekday of a day number, day 0 being a Monday.
DayName(date) ==
    CASE date % 7 = 0 -> "monday" [] date % 7 = 1 -> "tuesday"
      [] date % 7 = 2 -> "wednesday" [] date % 7 = 3 -> "thursday"
      [] date % 7 = 4 -> "friday" [] date % 7 = 5 -> "saturday"
      [] OTHER -> "sunday"

\* C12: every returned slot lasts duration_minutes and lies in the working
\* hours of its own weekday: the weekday is a key of the working hours, the
\* slot starts at or after the day's start hour and ends at or before its end
\* hour.
C12_SlotHasDurationInsideWorkingHours ==
    \A i \in 1..Len(Returned):
        LET s == Returned[i]
            day == DayName(s.start.date)
        IN  /\ Minutes(s.end) - Minutes(s.start) = request.duration_minutes
            /\ day \in DOMAIN working_hours
            /\ Minutes(s.start) >= s.start.date * 1440 + working_hours[day][1] * 60
            /\ Minutes(s.end) <= s.start.date * 1440 + working_hours[day][2] * 60

\* A slot of 45 minutes was returned that ends within 30 minutes of the end of
\* its day: the next 30-minute step would not fit.
C12_Witness ==
    /\ request.duration_minutes = 45
    /\ request.working_hours # None
    /\ \E i \in 1..Len(Returned):
           LET s == Returned[i]
           IN  s.start.date * 1440 + working_hours[DayName(s.start.date)][2] * 60
                   - Minutes(s.end) < 30

\* C13: the returned list is sorted ascending by start time and has at most
\* 10 elements.
C13_SortedAtMostTen ==
    /\ Len(Returned) <= 10
    /\ \A i \in 1..Len(Returned), j \in 1..Len(Returned):
           i < j => Minutes(Returned[i].start) < Minutes(Returned[j].start)

\* More than 10 slots were found, on two days, and 10 were returned.
C13_Witness ==
    /\ available_slots # None
    /\ Len(available_slots[1]) > 10
    /\ Len(Returned) = 10
    /\ \E i \in 1..Len(available_slots[1]):
           available_slots[1][i].start.date # available_slots[1][1].start.date

\* The candidates as the claims describe them: on each day of the range whose
\* weekday has working hours, the intervals of duration_minutes that start at
\* the day's start hour plus a multiple of 30 minutes and end at or before
\* the day's end hour; named by their start.
DayCandidates(d) ==
    IF DayName(d) \notin DOMAIN working_hours THEN {}
    ELSE {t \in {d * 1440 + working_hours[DayName(d)][1] * 60 + 30 * k : k \in 0..47} :
              t + request.duration_minutes <= d * 1440 + working_hours[DayName(d)][2] * 60}

Candidates ==
    UNION {DayCandidates(d) : d \in request.start_date.day..request.end_date.day}

\* The candidates that overlap no busy interval.
Free ==
    {t \in Candidates :
        \A j \in 1..Len(BusyAnswered):
            ~(/\ t < BusyAnswered[j].end.t
              /\ t + request.duration_minutes > BusyAnswered[j].start.t)}

\* The first n elements of a set of times, in ascending order.
RECURSIVE Chronological(_, _)
Chronological(S, n) ==
    IF S = {} \/ n = 0 THEN <<>>
    ELSE LET first == CHOOSE t \in S : \A u \in S : t <= u
         IN  <<first>> \o Chronological(S \ {first}, n - 1)

\* C14: the result is the first 10, in chronological order, of the candidates
\* that overlap no busy interval.
C14_ResultIsFirstTenFreeCandidates ==
    (request.duration_minutes > 0 /\ LoopsOver) =>
        /\ time_slots # None
        /\ [i \in 1..Len(Returned) |-> Minutes(Returned[i].start)] = Chronological(Free, 10)
        /\ \A i \in 1..Len(Returned):
               Minutes(Returned[i].end) =
                   Minutes(Returned[i].start) + request.duration_minutes

\* C15: a candidate that only touches a busy interval, and overlaps none, is
\* among the slots the conflict filter leaves.
C15_AbuttingCandidateSurvives ==
    (request.duration_minutes > 0 /\ LoopsOver) =>
        \A t \in Free:
            (\E j \in 1..Len(BusyAnswered):
                \/ t + request.duration_minutes = BusyAnswered[j].start.t
                \/ t = BusyAnswered[j].end.t)
            => /\ available_slots # None
               /\ \E i \in 1..Len(available_slots[1]):
                      Minutes(available_slots[1][i].start) = t

\* A request the claim calls malformed.
Malformed ==
    \/ request.duration_minutes <= 0
    \/ ~request.start_date.valid
    \/ ~request.end_date.valid
    \/ request.start_date.day > request.end_date.day

\* C17: a malformed slot request is rejected before any work: the calendar is
\* not queried and no slot list is produced.
C17_MalformedRequestRejected ==
    Malformed =>
        /\ busy_periods = None
        /\ time_slots = None

\* ------------------------------------------------------------ run claims
StageEvents == {"email_classified", "email_summarized", "email_reply_drafted"}

\* C18: a failure of the audit sink while it records an event of a stage
\* never fails the run: no exception of the audit call for a stage event
\* leaves the workflow.
C18_AuditFailureNeverFailsRun ==
    error # None => ~(error[1].name = "AuditError" /\ error[1].msg \in StageEvents)

\* C20: once the caller's cancellation signal is set the run executes no
\* further stage: it stops at the stage boundary it is at, with an error
\* whose reason is cancelled and the partial state.
C20_CancelStopsAtStageBoundary ==
    [][cancel_requested =>
        /\ calls' = calls
        /\ pc' \in {"raised", pc}
        /\ (pc' = "raised" /\ pc # "raised") =>
               /\ error' # None
               /\ error'[1].name = "WorkflowError"
               /\ error'[1].msg = "cancelled"
               /\ state' = state]_vars

CallReturned(m, node) == \E i \in CallsOf(m, node): calls[i].ok

\* C21 as stated: the conditional edge follows the classification node, so
\* in a run classified manual no stage after classification makes a provider
\* call.
C21_ManualEndsAfterClassification ==
    \A r \in Runs:
        r.classification = MANUAL =>
            /\ CallsOf(r.email.message_id, "summarizer") = {}
            /\ CallsOf(r.email.message_id, "reply_drafter") = {}

\* C21 amended: the conditional edge follows the summarization node: a run
\* leaves the graph or reaches the drafter only after its summarizer's
\* provider call returned, and a run classified manual is at the summarizer,
\* over or failed, never at the drafter, and makes no drafter call.
C21_EdgeFollowsSummarizer ==
    /\ (pc \in {"END", "reply_drafter"}) => CallReturned(state.email.message_id, "summarizer")
    /\ \A r \in Completed:
           /\ CallReturned(r.email.message_id, "summarizer")
           /\ r.classification = MANUAL => CallsOf(r.email.message_id, "reply_drafter") = {}
    /\ (state.email.message_id # 0 /\ state.classification = MANUAL) =>
           /\ pc \in {"summarizer", "END", "raised", "done", "crashed"}
           /\ CallsOf(state.email.message_id, "reply_drafter") = {}

\* A run classified manual is over: its summarizer made its provider call,
\* its drafter none.
C21_Witness ==
    \E r \in Completed:
        /\ r.classification = MANUAL
        /\ CallReturned(r.email.message_id, "summarizer")
        /\ CallsOf(r.email.message_id, "reply_drafter") = {}
        /\ Len(calls) = 2

C24_PromptFollowsClassification ==
    \A r \in Runs:
        \A i \in CallsOf(r.email.message_id, "reply_drafter"):
            /\ calls[i].system = "draft-for-review" <=> r.classification = DRAFT_FOR_REVIEW
            /\ calls[i].system = "auto-reply" <=> r.classification = AUTO_REPLY
            /\ r.reply_draft # None =>
                   (r.reply_draft[1].needs_review <=> calls[i].system = "draft-for-review")

\* Two runs are over, one drafted with each prompt.
C24_Witness ==
    /\ Len(processed_results) = 2
    /\ processed_results[1].reply_draft # None
    /\ processed_results[2].reply_draft # None
    /\ \E i, j \in 1..Len(calls):
           /\ calls[i].msg = 1 /\ calls[i].system = "draft-for-review"
           /\ calls[j].msg = 2 /\ calls[j].system = "auto-reply"
    /\ processed_results[1].reply_draft[1].needs_review
    /\ ~processed_results[2].reply_draft[1].needs_review

C27_UtcBusyReturnsSlots ==
    (/\ pc \in {"slots_returned", "slots_raised", "HTTP_200_OK",
                "HTTP_500_INTERNAL_SERVER_ERROR"}
     /\ request.duration_minutes > 0
     /\ \E j \in 1..Len(BusyAnswered): BusyAnswered[j].start.aware)
    => /\ time_slots # None
       /\ error = None

\* The runs whose summarizer node ran to its end.
Summarized ==
    Completed \cup (IF pc \in {"END", "reply_drafter"} THEN {state} ELSE {})

\* Positions in audit of the email_summarized events of message m.
SummarizedEvents(m) ==
    {i \in 1..Len(audit) :
        audit[i].action = "email_summarized" /\ audit[i].resource_id = Some(m)}

\* C28: each execution of the summarizer records exactly one
\* email_summarized event, with status failure when the provider text could
\* not be decoded (the run holds the fallback summary) and success otherwise.
C28_OneSummarizedEvent ==
    \A r \in Summarized:
        /\ Cardinality(SummarizedEvents(r.email.message_id)) = 1
        /\ \A i \in SummarizedEvents(r.email.message_id):
               audit[i].status = "failure" <=> r.summary = Some(FallbackSummary)

\* The provider text is no dict display: its evaluation raises, or yields a
\* value that is no dict.
Undecodable(content) ==
    LET r == eval(content) IN r.raised # None \/ r.value[1].t # "dict"

\* C25: issue generation never fails on the provider's text: once the
\* provider has answered (and the audit sink works) the generator returns an
\* issue with the caller's project key, the default issue when the text
\* cannot be decoded.
C25_IssueGenerationNeverFails ==
    (/\ pc \in {"issue_returned", "issue_raised"}
     /\ calls[Len(calls)].ok
     /\ ~(error # None /\ error[1].name = "AuditError"))
    => /\ issue # None
       /\ issue[1].project_key = jira_request.project_key
       /\ Undecodable(jira_request.content) => issue[1] = FallbackIssue(jira_request)

C30_InvalidSignatureIs401 ==
    (status_code # None /\ slack_request.signature \in {"invalid", "stale"})
    => status_code = Some(401)

====
